---- MODULE Spec2Model ----
(***************************************************************************)
(* Static point-lookup indexes over a sorted key array: the bulk-loaded    *)
(* B+Tree (BPTree) and the two-level learned index (RMI).                  *)
(*                                                                         *)
(* A driver holds one sorted key array and one index object.  The object   *)
(* is built (bulk_load / train) and queried (search) any number of times.  *)
(* Indices are zero-based as in the source; a C++ vector v is the TLA+     *)
(* sequence v with v[i] written At(v, i).                                  *)
(***************************************************************************)
EXTENDS Integers, Sequences, FiniteSets, TLC

\* ---------------------------------------------------------------- bounds
MaxLen      == 5    \* longest key array given to the BPTree
MaxKey      == 2    \* BPTree keys and queries range over 0..MaxKey
MaxOrder    == 3    \* BPTree orders 1..MaxOrder
MaxTrain    == 3    \* longest key array given to the RMI
MaxTrainKey == 3    \* RMI keys and queries: MaxTrainKey + 1 values
MaxLeaves   == 3    \* RMI num_leaves 1..MaxLeaves
KeyBase     == 5    \* smallest RMI key
KeyStride   == 4    \* distance between neighbouring RMI keys
LdBits      == 6    \* mantissa width of long double (64 in the x87 format)
DblBits     == 5    \* mantissa width of double (53 in binary64)

KeyDom      == 0..MaxKey
TrainKeyDom == {KeyBase + KeyStride * k : k \in 0..MaxTrainKey}
Orders      == 1..MaxOrder
LeafCfg     == 1..MaxLeaves

\* ------------------------------------------------------- vector helpers
At(v, i) == v[i + 1]

Min(a, b) == IF a < b THEN a ELSE b

IsSorted(s) == \A i \in 1..(Len(s) - 1) : s[i] <= s[i + 1]

\* every non-decreasing key array of at most n keys drawn from dom
SortedArrays(dom, n) ==
  UNION { { s \in [1..l -> dom] : IsSorted(s) } : l \in 0..n }

\* the key arrays the driver may hold for a BPTree and for an RMI
Arrays      == SortedArrays(KeyDom, MaxLen)
TrainArrays == SortedArrays(TrainKeyDom, MaxTrain)

\* the out-parameter pos was not written
NoPos == -1

\* ================================================================ BPTree
nullptr == [null |-> TRUE]

IsNull(node) == "null" \in DOMAIN node

\* BPTreeNode(leaf, ord): min_key(0), next(nullptr), empty vectors.
\* next is kept as the 1-based number of the next leaf in the leaf layer,
\* 0 for nullptr.
BPTreeNode(leaf, ord) ==
  [is_leaf |-> leaf, order |-> ord, min_key |-> 0,
   keys |-> <<>>, children |-> <<>>, child_ptrs |-> <<>>, next |-> 0]

\* the inner for loop of the leaf layer: push keys[j], j for j in [i, end)
RECURSIVE FillLeaf(_, _, _, _)
FillLeaf(leaf, ks, j, end) ==
  IF j >= end THEN leaf
  ELSE FillLeaf([leaf EXCEPT !.keys = Append(@, At(ks, j)),
                             !.children = Append(@, j)], ks, j + 1, end)

\* while (i < n): one leaf per run of up to order keys
RECURSIVE BuildLeaves(_, _, _)
BuildLeaves(ks, ord, i) ==
  IF i >= Len(ks) THEN <<>>
  ELSE LET end    == Min(i + ord, Len(ks))
           filled == FillLeaf(BPTreeNode(TRUE, ord), ks, i, end)
           leaf   == [filled EXCEPT !.min_key = filled.keys[1]]
       IN  <<leaf>> \o BuildLeaves(ks, ord, end)

\* leaves[j]->next = leaves[j + 1] for j + 1 < leaves.size()
LinkLeaves(leaves) ==
  [j \in 1..Len(leaves) |->
     IF j < Len(leaves) THEN [leaves[j] EXCEPT !.next = j + 1] ELSE leaves[j]]

\* split keys: min_key of every child except the first
SplitKeys(child_ptrs) ==
  [c \in 1..(Len(child_ptrs) - 1) |-> child_ptrs[c + 1].min_key]

\* MakeParent taking min_key from the last child instead of the first
MakeParent_lastmin(level, ord, idx, group_end) ==
  LET ptrs == SubSeq(level, idx + 1, group_end)
  IN  [BPTreeNode(FALSE, ord) EXCEPT !.child_ptrs = ptrs,
                                     !.min_key = ptrs[Len(ptrs)].min_key,
                                     !.keys = SplitKeys(ptrs)]

\* one parent over level[idx .. group_end)
MakeParent(level, ord, idx, group_end) ==
  LET ptrs == SubSeq(level, idx + 1, group_end)
  IN  [BPTreeNode(FALSE, ord) EXCEPT !.child_ptrs = ptrs,
                                     !.min_key = ptrs[1].min_key,
                                     !.keys = SplitKeys(ptrs)]

\* while (idx < level.size()): one pass that groups a level into parents
RECURSIVE GroupLevel(_, _, _)
GroupLevel(level, ord, idx) ==
  IF idx >= Len(level) THEN <<>>
  ELSE LET group_end == Min(idx + ord, Len(level))
       IN  <<MakeParent(level, ord, idx, group_end)>>
             \o GroupLevel(level, ord, group_end)

\* while (level.size() > 1) level = new_level.  The size of new_level
\* depends only on the size of level and on order, so a pass that does not
\* shrink the level is followed by passes that never do: the loop does not
\* exit and bulk_load does not return.
RECURSIVE BuildLevels(_, _)
BuildLevels(level, ord) ==
  IF Len(level) <= 1 THEN [returns |-> TRUE, level |-> level]
  ELSE LET new_level == GroupLevel(level, ord, 0)
       IN  IF Len(new_level) >= Len(level)
           THEN [returns |-> FALSE, level |-> new_level]
           ELSE BuildLevels(new_level, ord)

\* bulk_load that keeps a tree it already has
BulkLoad_keep(old_root, ord, ks) ==
  IF ~IsNull(old_root) THEN [returns |-> TRUE, root |-> old_root]
  ELSE IF Len(ks) = 0 THEN [returns |-> TRUE, root |-> nullptr]
  ELSE LET built == BuildLevels(LinkLeaves(BuildLeaves(ks, ord, 0)), ord)
       IN  IF built.returns
           THEN [returns |-> TRUE, root |-> built.level[1]]
           ELSE [returns |-> FALSE, root |-> nullptr]

\* bulk_load that returns on an empty array before it frees the old tree
BulkLoad_earlyreturn(old_root, ord, ks) ==
  IF Len(ks) = 0 THEN [returns |-> TRUE, root |-> old_root]
  ELSE LET built == BuildLevels(LinkLeaves(BuildLeaves(ks, ord, 0)), ord)
       IN  IF built.returns
           THEN [returns |-> TRUE, root |-> built.level[1]]
           ELSE [returns |-> FALSE, root |-> nullptr]

\* BPTree::bulk_load: the old tree is freed and root_ reset before anything
\* else; [returns, root] is whether the call returns and root_ at that point
BulkLoad(old_root, ord, ks) ==
  IF Len(ks) = 0 THEN [returns |-> TRUE, root |-> nullptr]
  ELSE LET built == BuildLevels(LinkLeaves(BuildLeaves(ks, ord, 0)), ord)
       IN  IF built.returns
           THEN [returns |-> TRUE, root |-> built.level[1]]
           ELSE [returns |-> FALSE, root |-> nullptr]

\* UpperBound with the comparison of a lower bound (key <= keys[mid])
RECURSIVE UpperBound_lower(_, _, _, _)
UpperBound_lower(ks, key, lo, hi) ==
  IF lo < hi
  THEN LET mid == (lo + hi) \div 2
       IN  IF key <= At(ks, mid) THEN UpperBound_lower(ks, key, lo, mid)
           ELSE UpperBound_lower(ks, key, mid + 1, hi)
  ELSE lo

\* first index in ks whose key is > key (the descent's binary search)
RECURSIVE UpperBound(_, _, _, _)
UpperBound(ks, key, lo, hi) ==
  IF lo < hi
  THEN LET mid == (lo + hi) \div 2
       IN  IF key < At(ks, mid) THEN UpperBound(ks, key, lo, mid)
           ELSE UpperBound(ks, key, mid + 1, hi)
  ELSE lo

\* while (!node->is_leaf): the leaf the descent ends in
RECURSIVE Descend(_, _)
Descend(node, key) ==
  IF node.is_leaf THEN node
  ELSE LET lo        == UpperBound(node.keys, key, 0, Len(node.keys))
           child_idx == IF lo >= Len(node.child_ptrs)
                        THEN Len(node.child_ptrs) - 1 ELSE lo
       IN  Descend(At(node.child_ptrs, child_idx), key)

\* binary search of a leaf for an exact match
RECURSIVE LeafSearch(_, _, _, _)
LeafSearch(leaf, key, lo, hi) ==
  IF lo < hi
  THEN LET mid == (lo + hi) \div 2
       IN  IF key < At(leaf.keys, mid) THEN LeafSearch(leaf, key, lo, mid)
           ELSE IF key > At(leaf.keys, mid)
                THEN LeafSearch(leaf, key, mid + 1, hi)
                ELSE [found |-> TRUE, pos |-> At(leaf.children, mid)]
  ELSE [found |-> FALSE, pos |-> NoPos]

\* BPTree::search
BPTreeSearch(root, key) ==
  IF IsNull(root) THEN [found |-> FALSE, pos |-> NoPos]
  ELSE LET leaf == Descend(root, key)
       IN  LeafSearch(leaf, key, 0, Len(leaf.keys))

\* =================================================================== RMI
\* Floating point.  A value is m * 2^e with m odd (or m = e = 0), so equal
\* numbers are equal records.  Every operation computes the exact result and
\* rounds it to the mantissa width of its type, to nearest, ties to even.
\* The widths are scaled down together with the keys: a key fits the long
\* double mantissa exactly (as a uint64_t fits the 64-bit x87 mantissa),
\* a double is narrower.  On builds whose long double is a double (low)
\* both widths are DblBits.
Mant(low) == IF low THEN DblBits ELSE LdBits

Abs(p) == IF p < 0 THEN -p ELSE p

RECURSIVE BitLen(_)
BitLen(p) == IF p = 0 THEN 0 ELSE 1 + BitLen(p \div 2)

RECURSIVE Canon(_, _)
Canon(m, e) ==
  IF m = 0 THEN [m |-> 0, e |-> 0]
  ELSE IF m % 2 = 0 THEN Canon(m \div 2, e + 1)
  ELSE [m |-> m, e |-> e]

Zero == [m |-> 0, e |-> 0]

\* Pick({e : v \in {d}}) is e with v = d, d computed once
Pick(S) == CHOOSE v \in S : TRUE

\* m * 2^e rounded to bits significant bits
Round(m, e, bits) ==
  Pick({ IF k <= 0 THEN Canon(mv, e)
         ELSE LET q    == Abs(mv) \div (2 ^ k)
                  r    == Abs(mv) % (2 ^ k)
                  half == 2 ^ (k - 1)
                  up   == IF r > half \/ (r = half /\ q % 2 = 1)
                          THEN q + 1 ELSE q
              IN  Canon(IF mv < 0 THEN -up ELSE up, e + k)
         : mv \in {m}, k \in {BitLen(Abs(m)) - bits} })

\* static_cast<long double>(n), static_cast<double>(x)
FromInt(n, bits) == Round(n, 0, bits)

ToDouble(x) == Round(x.m, x.e, DblBits)

FMul(x, y, bits) ==
  Pick({ Round(xv.m * yv.m, xv.e + yv.e, bits) : xv \in {x}, yv \in {y} })

FAdd(x, y, bits) ==
  Pick({ LET e0 == IF xv.e < yv.e THEN xv.e ELSE yv.e
         IN  Round(xv.m * (2 ^ (xv.e - e0)) + yv.m * (2 ^ (yv.e - e0)),
                   e0, bits)
         : xv \in {x}, yv \in {y} })

FSub(x, y, bits) ==
  Pick({ FAdd(x, [m |-> -yv.m, e |-> yv.e], bits) : yv \in {y} })

\* the quotient is computed to bits + 2 places and a sticky bit, then rounded
FDiv(x, y, bits) ==
  Pick({ IF xv.m = 0 THEN Zero
         ELSE LET p   == Abs(xv.m)
                  q   == Abs(yv.m)
                  d   == bits + 2 + BitLen(q) - BitLen(p)
                  s   == IF d < 0 THEN 0 ELSE d
                  quo == (p * (2 ^ s)) \div q
                  rem == (p * (2 ^ s)) % q
                  q2  == 2 * quo + (IF rem = 0 THEN 0 ELSE 1)
              IN  Round(IF (xv.m < 0) = (yv.m < 0) THEN q2 ELSE -q2,
                        xv.e - yv.e - s - 1, bits)
         : xv \in {x}, yv \in {y} })

\* the largest integer not above x (for x >= 0 the value of
\* static_cast<std::size_t>(x))
Floor(x) ==
  IF x.e >= 0 THEN x.m * (2 ^ x.e)
  ELSE IF -x.e >= BitLen(Abs(x.m)) THEN (IF x.m < 0 THEN -1 ELSE 0)
  ELSE x.m \div (2 ^ (-x.e))

\* LinearModel {a, b, start_idx, end_idx, max_error}
LinearModel(a, b, start_idx, end_idx, max_error) ==
  [a |-> a, b |-> b, start_idx |-> start_idx, end_idx |-> end_idx,
   max_error |-> max_error]

ZeroModel == LinearModel(Zero, Zero, 0, 0, 0)

\* RMI::fit_linear, the accumulation loop: sum_x, sum_y, sum_x2, sum_xy
RECURSIVE Sums(_, _, _, _, _)
Sums(acc, x, y, i, bits) ==
  IF i >= Len(x) THEN acc
  ELSE Pick({ Sums(next, x, y, i + 1, bits) :
              next \in { [sum_x  |-> FAdd(av.sum_x, xi, bits),
                          sum_y  |-> FAdd(av.sum_y, yi, bits),
                          sum_x2 |-> FAdd(av.sum_x2, FMul(xi, xi, bits), bits),
                          sum_xy |-> FAdd(av.sum_xy, FMul(xi, yi, bits), bits)]
                         : av \in {acc},
                           xi \in {FromInt(At(x, i), bits)},
                           yi \in {FromInt(At(y, i), bits)} } })

\* RMI::fit_linear: least squares y ~ a*x + b in long double, flat fallback
\* when the denominator is (numerically) zero.  denom is an integer-valued
\* long double, so fabs(double(denom)) < 1e-12 says denom = 0.
fit_linear(x, y, low) ==
  IF Len(x) = 0 THEN [a |-> Zero, b |-> Zero]
  ELSE Pick({
    Pick({
      IF ToDouble(denom) = Zero
      THEN [a |-> Zero, b |-> ToDouble(FDiv(s.sum_y, n_ld, bits))]
      ELSE Pick({
        Pick({ [a |-> ToDouble(a_ld),
                b |-> ToDouble(FDiv(FSub(s.sum_y,
                                         FMul(a_ld, s.sum_x, bits), bits),
                                    n_ld, bits))]
               : a_ld \in {FDiv(num, denom, bits)} })
        : num \in {FSub(FMul(n_ld, s.sum_xy, bits),
                        FMul(s.sum_x, s.sum_y, bits), bits)} })
      : denom \in {FSub(FMul(n_ld, s.sum_x2, bits),
                        FMul(s.sum_x, s.sum_x, bits), bits)} })
    : bits \in {Mant(low)},
      n_ld \in {FromInt(Len(x), Mant(low))},
      s    \in {Sums([sum_x |-> Zero, sum_y |-> Zero, sum_x2 |-> Zero,
                      sum_xy |-> Zero], x, y, 0, Mant(low))} })

\* floor of the long double pred = a * key + b
Predict(m, key, low) ==
  Pick({ Floor(pred) :
         pred \in {FAdd(FMul(m.a, FromInt(key, Mant(low)), Mant(low)), m.b,
                        Mant(low))} })

\* the clamp_pos lambda of train and of search
clamp_pos(p, n) == IF p < 0 THEN 0 ELSE IF p >= n THEN n - 1 ELSE p

\* leaf_id = pos * num_leaves / n, capped at num_leaves - 1
LeafId(pos, nl, n) ==
  LET leaf_id == (pos * nl) \div n
  IN  IF leaf_id >= nl THEN nl - 1 ELSE leaf_id

\* train step 2: buckets[leaf_id].push_back(i) for i in [0, n)
RECURSIVE Bucketize(_, _, _, _, _, _)
Bucketize(buckets, root, nl, ks, i, low) ==
  IF i >= Len(ks) THEN buckets
  ELSE Pick({ Bucketize(next, root, nl, ks, i + 1, low) :
              next \in { [bv EXCEPT ![LeafId(pos, nl, Len(ks)) + 1] =
                                      Append(@, i)]
                         : bv \in {buckets},
                           pos \in {clamp_pos(Predict(root, At(ks, i), low),
                                              Len(ks))} } })

\* LeafStats whose loop stops one member early (i + 1 < x.size())
RECURSIVE LeafStats_short(_, _, _, _, _, _, _)
LeafStats_short(acc, m, x, y, n, i, low) ==
  IF i + 1 >= Len(x) THEN acc
  ELSE Pick({ LeafStats_short(next, m, x, y, n, i + 1, low) :
              next \in { LET true_pos == At(y, i)
                             err      == IF pos > true_pos THEN pos - true_pos
                                         ELSE true_pos - pos
                         IN  [max_err   |-> IF err > av.max_err THEN err
                                            ELSE av.max_err,
                              start_idx |-> IF true_pos < av.start_idx
                                            THEN true_pos ELSE av.start_idx,
                              end_idx   |-> IF true_pos > av.end_idx
                                            THEN true_pos ELSE av.end_idx]
                         : av \in {acc},
                           pos \in {clamp_pos(Predict(m, At(x, i), low), n)} } })

\* train step 3, inner loop: max_err, start_idx, end_idx over the members
RECURSIVE LeafStats(_, _, _, _, _, _, _)
LeafStats(acc, m, x, y, n, i, low) ==
  IF i >= Len(x) THEN acc
  ELSE Pick({ LeafStats(next, m, x, y, n, i + 1, low) :
              next \in { LET true_pos == At(y, i)
                             err      == IF pos > true_pos THEN pos - true_pos
                                         ELSE true_pos - pos
                         IN  [max_err   |-> IF err > av.max_err THEN err
                                            ELSE av.max_err,
                              start_idx |-> IF true_pos < av.start_idx
                                            THEN true_pos ELSE av.start_idx,
                              end_idx   |-> IF true_pos > av.end_idx
                                            THEN true_pos ELSE av.end_idx]
                         : av \in {acc},
                           pos \in {clamp_pos(Predict(m, At(x, i), low), n)} } })

\* TrainLeaf that stores the largest member index as end_idx (no + 1)
TrainLeaf_inclusive(idxs, ks, low) ==
  IF idxs = <<>> THEN ZeroModel
  ELSE Pick({
    Pick({
      Pick({ LinearModel(fit.a, fit.b, st.start_idx, st.end_idx, st.max_err)
             : st \in {LeafStats([max_err |-> 0, start_idx |-> y[1],
                                  end_idx |-> y[1]],
                                 LinearModel(fit.a, fit.b, 0, 0, 0),
                                 x, y, Len(ks), 0, low)} })
      : fit \in {fit_linear(x, y, low)} })
    : x \in {[j \in 1..Len(idxs) |-> At(ks, idxs[j])]}, y \in {idxs} })

\* train step 3, one leaf: the model written to leaves_[leaf_id]
TrainLeaf(idxs, ks, low) ==
  IF idxs = <<>> THEN ZeroModel
  ELSE Pick({
    Pick({
      Pick({ LinearModel(fit.a, fit.b, st.start_idx, st.end_idx + 1, st.max_err)
             : st \in {LeafStats([max_err |-> 0, start_idx |-> y[1],
                                  end_idx |-> y[1]],
                                 LinearModel(fit.a, fit.b, 0, 0, 0),
                                 x, y, Len(ks), 0, low)} })
      : fit \in {fit_linear(x, y, low)} })
    : x \in {[j \in 1..Len(idxs) |-> At(ks, idxs[j])]}, y \in {idxs} })

\* leaves_.clear(); leaves_.resize(num_leaves_, {0.0, 0.0, 0, 0, 0})
ClearResize(leaves, nl) == [l \in 1..nl |-> ZeroModel]

\* train step 3, outer loop over leaf_id
RECURSIVE TrainLeaves(_, _, _, _, _)
TrainLeaves(leaves, buckets, ks, leaf_id, low) ==
  IF leaf_id >= Len(buckets) THEN leaves
  ELSE Pick({ TrainLeaves(next, buckets, ks, leaf_id + 1, low) :
              next \in { [lv EXCEPT ![leaf_id + 1] =
                                      TrainLeaf(buckets[leaf_id + 1], ks, low)]
                         : lv \in {leaves} } })

\* train steps 1 to 3 on a non-empty array: the fitted root and the
\* leaves_ written
Train(nl, ks, low) ==
  Pick({
    Pick({
      Pick({ [root    |-> root,
              buckets |-> buckets,
              leaves  |-> TrainLeaves(ClearResize(<<>>, nl), buckets, ks, 0,
                                      low)]
             : buckets \in {Bucketize([l \in 1..nl |-> <<>>], root, nl, ks,
                                      0, low)} })
      : root \in {LinearModel(fit.a, fit.b, 0, Len(ks), 0)} })
    : fit \in {fit_linear(ks, [i \in 1..Len(ks) |-> i - 1], low)} })

\* Train is a function of num_leaves_, the keys and the build.  It is
\* tabulated once over the bounded inputs; the table is indexed by the
\* number of the array (its keys read as digits).
RECURSIVE ArrayCode(_)
ArrayCode(ks) ==
  IF ks = <<>> THEN 0
  ELSE 1 + (Head(ks) - KeyBase) \div KeyStride
         + (MaxTrainKey + 2) * ArrayCode(Tail(ks))

ArrayOf(code) == CHOOSE ks \in TrainArrays : ArrayCode(ks) = code

TrainMemo ==
  [lw \in BOOLEAN, nl \in LeafCfg,
   code \in {ArrayCode(ks) : ks \in TrainArrays \ {<<>>}} |->
     Train(nl, ArrayOf(code), lw)]

\* train that clears leaves_ before it checks for an empty array
RMITrain_clearfirst(rmi, nl, ks, low) ==
  IF Len(ks) = 0 THEN [threw |-> TRUE, root |-> rmi.root, leaves |-> <<>>]
  ELSE [threw |-> FALSE, root |-> TrainMemo[low, nl, ArrayCode(ks)].root,
        leaves |-> TrainMemo[low, nl, ArrayCode(ks)].leaves]

\* RMI::train on the object rmi = [root, leaves]
RMITrain(rmi, nl, ks, low) ==
  IF Len(ks) = 0 THEN [threw |-> TRUE, root |-> rmi.root, leaves |-> rmi.leaves]
  ELSE [threw |-> FALSE, root |-> TrainMemo[low, nl, ArrayCode(ks)].root,
        leaves |-> TrainMemo[low, nl, ArrayCode(ks)].leaves]

\* BinarySearch that reports the insertion point as a match when the
\* window is exhausted
RECURSIVE BinarySearch_lb(_, _, _, _)
BinarySearch_lb(ks, key, lo, hi) ==
  IF lo <= hi
  THEN LET mid == (lo + hi) \div 2
       IN  IF mid >= Len(ks) THEN [found |-> FALSE, pos |-> NoPos, ub |-> TRUE]
           ELSE IF key < At(ks, mid)
                THEN IF mid = 0
                     THEN [found |-> FALSE, pos |-> NoPos, ub |-> FALSE]
                     ELSE BinarySearch_lb(ks, key, lo, mid - 1)
           ELSE IF key > At(ks, mid) THEN BinarySearch_lb(ks, key, mid + 1, hi)
           ELSE [found |-> TRUE, pos |-> mid, ub |-> FALSE]
  ELSE IF lo < Len(ks) THEN [found |-> TRUE, pos |-> lo, ub |-> FALSE]
       ELSE [found |-> FALSE, pos |-> NoPos, ub |-> FALSE]

\* search step 3: while (lo <= hi) over keys; ub marks a read of keys[mid]
\* past the end of the array
RECURSIVE BinarySearch(_, _, _, _)
BinarySearch(ks, key, lo, hi) ==
  IF lo <= hi
  THEN LET mid == (lo + hi) \div 2
       IN  IF mid >= Len(ks) THEN [found |-> FALSE, pos |-> NoPos, ub |-> TRUE]
           ELSE IF key < At(ks, mid)
                THEN IF mid = 0
                     THEN [found |-> FALSE, pos |-> NoPos, ub |-> FALSE]
                     ELSE BinarySearch(ks, key, lo, mid - 1)
           ELSE IF key > At(ks, mid) THEN BinarySearch(ks, key, mid + 1, hi)
           ELSE [found |-> TRUE, pos |-> mid, ub |-> FALSE]
  ELSE [found |-> FALSE, pos |-> NoPos, ub |-> FALSE]

\* Route dividing by n before it multiplies by num_leaves
Route_divfirst(rmi, nl, ks, key, low) ==
  LET leaf_id == (clamp_pos(Predict(rmi.root, key, low), Len(ks))
                    \div Len(ks)) * nl
  IN  IF leaf_id >= nl THEN nl - 1 ELSE leaf_id

\* search step 1: the leaf_id the root prediction routes key to
Route(rmi, nl, ks, key, low) ==
  LeafId(clamp_pos(Predict(rmi.root, key, low), Len(ks)), nl, Len(ks))

\* search step 2: the final window [lo, hi] of leaf for key
Window(leaf, ks, key, low) ==
  LET n     == Len(ks)
      p     == clamp_pos(Predict(leaf, key, low), n)
      lo0   == leaf.start_idx
      hi0   == IF leaf.end_idx = 0 THEN 0 ELSE leaf.end_idx - 1
      left  == IF p > leaf.max_error THEN p - leaf.max_error ELSE 0
      right == Min(p + leaf.max_error, n - 1)
  IN  IF leaf.max_error > 0
      THEN [lo |-> IF left > lo0 THEN left ELSE lo0,
            hi |-> IF right < hi0 THEN right ELSE hi0]
      ELSE [lo |-> lo0, hi |-> hi0]

\* RMI::search.  ub: the call indexes leaves_ or keys out of bounds
RMISearch(rmi, nl, ks, key, low) ==
  IF Len(ks) = 0 THEN [found |-> FALSE, pos |-> NoPos, ub |-> FALSE]
  ELSE LET leaf_id == Route(rmi, nl, ks, key, low)
       IN  IF leaf_id >= Len(rmi.leaves)
           THEN [found |-> FALSE, pos |-> NoPos, ub |-> TRUE]
           ELSE LET w == Window(At(rmi.leaves, leaf_id), ks, key, low)
                IN  BinarySearch(ks, key, w.lo, w.hi)

\* ---------------------------------------------------- memory estimates
\* BPTree::count_nodes
RECURSIVE count_nodes(_), CountChildren(_, _)
count_nodes(node) ==
  IF IsNull(node) THEN 0
  ELSE IF node.is_leaf THEN 1
  ELSE 1 + CountChildren(node.child_ptrs, 0)

CountChildren(child_ptrs, c) ==
  IF c >= Len(child_ptrs) THEN 0
  ELSE count_nodes(At(child_ptrs, c)) + CountChildren(child_ptrs, c + 1)

\* the per-node estimate of BPTree::memory_usage_bytes
NodeBytes == 512

\* BPTree::memory_usage_bytes
BPTreeMemoryUsage(root) == count_nodes(root) * NodeBytes

\* sizeof(LinearModel): two double and three std::size_t of 8 bytes each
SizeofLinearModel == 40

\* RMI::memory_usage_bytes
RMIMemoryUsage(leaves) == SizeofLinearModel * (1 + Len(leaves))

\* ------------------------------------------------------ reader threads
\* A thread inside a const member call.  Its locals: the node pointer of
\* BPTree::search as the path of child indices from root_ (path), and
\* leaf_id, lo, hi of RMI::search.  A step reads the shared object at the
\* time the step is taken.
Reader(rpc, op, key, path, leaf_id, lo, hi, found, pos, bytes) ==
  [pc |-> rpc, op |-> op, key |-> key, path |-> path, leaf_id |-> leaf_id,
   lo |-> lo, hi |-> hi, found |-> found, pos |-> pos, bytes |-> bytes]

IdleReader == Reader("idle", "none", 0, <<>>, 0, 0, 0, FALSE, NoPos, 0)

\* the call returns: the locals die, the results stay with the caller
Returned(r, found, pos, bytes) ==
  Reader("idle", r.op, r.key, <<>>, 0, 0, 0, found, pos, bytes)

\* the node a path of child indices leads to
RECURSIVE NodeAt(_, _)
NodeAt(node, path) ==
  IF path = <<>> THEN node
  ELSE NodeAt(At(node.child_ptrs, Head(path)), Tail(path))

\* BPTreeStep descending to the first child whatever the key
BPTreeStep_first(root, r) ==
  IF r.op = "memory_usage_bytes"
  THEN Returned(r, FALSE, NoPos, BPTreeMemoryUsage(root))
  ELSE IF r.pc = "called"
  THEN IF IsNull(root) THEN Returned(r, FALSE, NoPos, 0)
       ELSE [r EXCEPT !.pc = "in_node", !.path = <<>>]
  ELSE LET node == NodeAt(root, r.path)
       IN  IF node.is_leaf
           THEN LET res == LeafSearch(node, r.key, 0, Len(node.keys))
                IN  Returned(r, res.found, res.pos, 0)
           ELSE [r EXCEPT !.path = Append(@, 0)]

\* one step of BPTree::search (or the whole of memory_usage_bytes) by a
\* thread with locals r: the root_ test, one round of the descent loop, or
\* the binary search of the leaf
BPTreeStep(root, r) ==
  IF r.op = "memory_usage_bytes"
  THEN Returned(r, FALSE, NoPos, BPTreeMemoryUsage(root))
  ELSE IF r.pc = "called"
  THEN IF IsNull(root) THEN Returned(r, FALSE, NoPos, 0)
       ELSE [r EXCEPT !.pc = "in_node", !.path = <<>>]
  ELSE LET node == NodeAt(root, r.path)
       IN  IF node.is_leaf
           THEN LET res == LeafSearch(node, r.key, 0, Len(node.keys))
                IN  Returned(r, res.found, res.pos, 0)
           ELSE LET lo        == UpperBound(node.keys, r.key, 0, Len(node.keys))
                    child_idx == IF lo >= Len(node.child_ptrs)
                                 THEN Len(node.child_ptrs) - 1 ELSE lo
                IN  [r EXCEPT !.path = Append(@, child_idx)]

\* one step of RMI::search (or the whole of memory_usage_bytes): the root
\* prediction, the leaf read and its window, or the binary search of keys
RMIStep(rmi, nl, ks, r, low) ==
  IF r.op = "memory_usage_bytes"
  THEN Returned(r, FALSE, NoPos, RMIMemoryUsage(rmi.leaves))
  ELSE IF r.pc = "called"
  THEN IF Len(ks) = 0 THEN Returned(r, FALSE, NoPos, 0)
       ELSE [r EXCEPT !.pc = "routed",
                      !.leaf_id = Route(rmi, nl, ks, r.key, low)]
  ELSE IF r.pc = "routed"
  THEN LET w == Window(At(rmi.leaves, r.leaf_id), ks, r.key, low)
       IN  [r EXCEPT !.pc = "window", !.lo = w.lo, !.hi = w.hi]
  ELSE LET res == BinarySearch(ks, r.key, r.lo, r.hi)
       IN  Returned(r, res.found, res.pos, 0)

\* ================================================================= state
VARIABLES
  index,        \* which index the driver constructed: "bpt" or "rmi"
  keys,         \* the driver's key array: the one loaded at start, then
                \* the one of the latest build call that completed
  built,        \* a build call has completed on the object
  pc,           \* "idle"; "in_bulk_load": the call never returns;
                \* "crashed", "undefined": after undefined behaviour
  order_,       \* BPTree::order_
  bpt_root,     \* BPTree::root_
  num_leaves_,  \* RMI::num_leaves_
  rmi_root,     \* RMI::root_
  leaves_,      \* RMI::leaves_
  fp_low,       \* floating-point build: long double is no wider than double
  last,         \* the latest call and what it returned; replaced: the
                \* call found the state of an earlier build in the object
  readers       \* the threads inside search or memory_usage_bytes

vars == <<index, keys, built, pc, order_, bpt_root, num_leaves_, rmi_root,
          leaves_, fp_low, last, readers>>

\* the reader threads
Threads == {"t1", "t2"}

Call(op, arg, key, found, pos, ub, threw, replaced) ==
  [op |-> op, arg |-> arg, key |-> key, found |-> found, pos |-> pos,
   ub |-> ub, threw |-> threw, replaced |-> replaced, bytes |-> 0]

NoCall == Call("none", <<>>, 0, FALSE, NoPos, FALSE, FALSE, FALSE)

\* a memory_usage_bytes call and the value it returned
MemCall(op, bytes) == [NoCall EXCEPT !.op = op, !.bytes = bytes]

rmi == [root |-> rmi_root, leaves |-> leaves_]

\* BPTree::BPTree(order): order_(order), root_(nullptr)
InitBPTree ==
  /\ index = "bpt"
  /\ order_ \in Orders
  /\ bpt_root = nullptr
  /\ num_leaves_ = 0 /\ rmi_root = ZeroModel /\ leaves_ = <<>> /\ fp_low = FALSE

\* RMI::RMI(num_leaves): num_leaves_(num_leaves), root_{0,0,0,0,0};
\* leaves_ is default-constructed, i.e. empty
InitRMI ==
  /\ index = "rmi"
  /\ num_leaves_ \in LeafCfg
  /\ rmi_root = ZeroModel
  /\ leaves_ = <<>>
  /\ fp_low \in BOOLEAN
  /\ order_ = 0 /\ bpt_root = nullptr

Init ==
  /\ built = FALSE
  /\ pc = "idle"
  /\ last = NoCall
  /\ readers = [t \in Threads |-> IdleReader]
  /\ \/ InitBPTree /\ keys \in Arrays
     \/ InitRMI /\ keys \in TrainArrays

\* bpt.bulk_load(ks)
DoBulkLoad(ks) ==
  /\ index = "bpt" /\ pc = "idle"
  /\ \E r \in {BulkLoad(bpt_root, order_, ks)} :
         /\ bpt_root' = r.root
         /\ pc' = IF r.returns THEN "idle" ELSE "in_bulk_load"
         /\ keys' = ks
         /\ built' = (built \/ r.returns)
         /\ last' = Call("bulk_load", ks, 0, FALSE, NoPos, FALSE, FALSE,
                      ~IsNull(bpt_root))
  /\ UNCHANGED <<index, order_, num_leaves_, rmi_root, leaves_, fp_low, readers>>

\* bpt.search(key, pos)
DoBPTreeSearch(key) ==
  /\ index = "bpt" /\ pc = "idle"
  /\ \E r \in {BPTreeSearch(bpt_root, key)} :
         last' = Call("bpt_search", keys, key, r.found, r.pos, FALSE, FALSE, FALSE)
  /\ UNCHANGED <<index, keys, built, pc, order_, bpt_root, num_leaves_,
                 rmi_root, leaves_, fp_low, readers>>

\* rmi.train(ks)
DoTrain(ks) ==
  /\ index = "rmi" /\ pc = "idle"
  /\ \E r \in {RMITrain(rmi, num_leaves_, ks, fp_low)} :
         /\ rmi_root' = r.root
         /\ leaves_' = r.leaves
         /\ keys' = IF r.threw THEN keys ELSE ks
         /\ built' = (built \/ ~r.threw)
         /\ last' = Call("train", ks, 0, FALSE, NoPos, FALSE, r.threw,
                      Len(leaves_) > 0)
  /\ UNCHANGED <<index, pc, order_, bpt_root, num_leaves_, fp_low, readers>>

\* rmi.search(keys, key, pos).  An out-of-bounds read is undefined
\* behaviour: the call may crash, or return any flag and any position, and
\* nothing is known of the program from then on.
DoRMISearch(key) ==
  /\ index = "rmi" /\ pc = "idle"
  /\ \E r \in {RMISearch(rmi, num_leaves_, keys, key, fp_low)} :
         IF r.ub
         THEN \/ /\ pc' = "crashed"
                 /\ last' = Call("rmi_search", keys, key, FALSE, NoPos, TRUE, FALSE, FALSE)
              \/ /\ pc' = "undefined"
                 /\ \E f \in BOOLEAN, p \in 0..Len(keys) :
                      last' = Call("rmi_search", keys, key, f,
                                   IF f THEN p ELSE NoPos, TRUE, FALSE, FALSE)
         ELSE /\ pc' = pc
              /\ last' = Call("rmi_search", keys, key, r.found, r.pos, FALSE, FALSE, FALSE)
  /\ UNCHANGED <<index, keys, built, order_, bpt_root, num_leaves_,
                 rmi_root, leaves_, fp_low, readers>>

\* bpt.memory_usage_bytes()
DoBPTreeMemoryUsage ==
  /\ index = "bpt" /\ pc = "idle"
  /\ last' = MemCall("bpt_memory_usage_bytes", BPTreeMemoryUsage(bpt_root))
  /\ UNCHANGED <<index, keys, built, pc, order_, bpt_root, num_leaves_,
                 rmi_root, leaves_, fp_low, readers>>

\* rmi.memory_usage_bytes()
DoRMIMemoryUsage ==
  /\ index = "rmi" /\ pc = "idle"
  /\ last' = MemCall("rmi_memory_usage_bytes", RMIMemoryUsage(leaves_))
  /\ UNCHANGED <<index, keys, built, pc, order_, bpt_root, num_leaves_,
                 rmi_root, leaves_, fp_low, readers>>

Next ==
  \/ \E ks \in Arrays : DoBulkLoad(ks)
  \/ \E key \in KeyDom : DoBPTreeSearch(key)
  \/ \E ks \in TrainArrays : DoTrain(ks)
  \/ \E key \in TrainKeyDom : DoRMISearch(key)
  \/ DoBPTreeMemoryUsage
  \/ DoRMIMemoryUsage

Spec == Init /\ [][Next]_vars

\* ------------------------------------------- concurrent const calls
\* The object after a build call that completed, no build in flight, and
\* the threads about to call search and memory_usage_bytes.
InitReaders ==
  /\ built = TRUE
  /\ pc = "idle"
  /\ last = NoCall
  /\ readers = [t \in Threads |-> IdleReader]
  /\ \/ /\ index = "bpt"
        /\ order_ \in Orders
        /\ keys \in Arrays
        /\ \E r \in {BulkLoad(nullptr, order_, keys)} :
               r.returns /\ bpt_root = r.root
        /\ num_leaves_ = 0 /\ rmi_root = ZeroModel /\ leaves_ = <<>>
        /\ fp_low = FALSE
     \/ /\ index = "rmi"
        /\ num_leaves_ \in LeafCfg
        /\ fp_low \in BOOLEAN
        /\ keys \in TrainArrays \ {<<>>}
        /\ \E r \in {RMITrain([root |-> ZeroModel, leaves |-> <<>>],
                              num_leaves_, keys, fp_low)} :
               rmi_root = r.root /\ leaves_ = r.leaves
        /\ order_ = 0 /\ bpt_root = nullptr

\* thread t calls search(key)
ReaderSearch(t, key) ==
  /\ readers[t].pc = "idle"
  /\ key \in (IF index = "bpt" THEN KeyDom ELSE TrainKeyDom)
  /\ readers' = [readers EXCEPT ![t] =
                   Reader("called", "search", key, <<>>, 0, 0, 0, FALSE,
                          NoPos, 0)]
  /\ UNCHANGED <<index, keys, built, pc, order_, bpt_root, num_leaves_,
                 rmi_root, leaves_, fp_low, last>>

\* thread t calls memory_usage_bytes()
ReaderMemoryUsage(t) ==
  /\ readers[t].pc = "idle"
  /\ readers' = [readers EXCEPT ![t] =
                   Reader("called", "memory_usage_bytes", 0, <<>>, 0, 0, 0,
                          FALSE, NoPos, 0)]
  /\ UNCHANGED <<index, keys, built, pc, order_, bpt_root, num_leaves_,
                 rmi_root, leaves_, fp_low, last>>

\* thread t runs on to its next read of the shared object
ReaderStep(t) ==
  /\ readers[t].pc # "idle"
  /\ \E r \in {IF index = "bpt" THEN BPTreeStep(bpt_root, readers[t])
               ELSE RMIStep(rmi, num_leaves_, keys, readers[t], fp_low)} :
         readers' = [readers EXCEPT ![t] = r]
  /\ UNCHANGED <<index, keys, built, pc, order_, bpt_root, num_leaves_,
                 rmi_root, leaves_, fp_low, last>>

NextReaders ==
  \/ \E t \in Threads : \E key \in KeyDom \cup TrainKeyDom : ReaderSearch(t, key)
  \/ \E t \in Threads : ReaderMemoryUsage(t)
  \/ \E t \in Threads : ReaderStep(t)

SpecReaders == InitReaders /\ [][NextReaders]_vars

\* ================================================================ claims
HasKey(ks, key) == \E i \in 0..(Len(ks) - 1) : At(ks, i) = key

InRange(pos, ks) == 0 <= pos /\ pos < Len(ks)

\* the nodes of the subtree of node, and the keys stored in its leaves
RECURSIVE Nodes(_)
Nodes(node) ==
  IF node.is_leaf THEN {node}
  ELSE {node} \cup UNION { Nodes(node.child_ptrs[c]) :
                             c \in 1..Len(node.child_ptrs) }

RECURSIVE SubtreeKeys(_)
SubtreeKeys(node) ==
  IF node.is_leaf THEN { node.keys[j] : j \in 1..Len(node.keys) }
  ELSE UNION { SubtreeKeys(node.child_ptrs[c]) :
                 c \in 1..Len(node.child_ptrs) }

IsMinOf(k, S) == k \in S /\ \A x \in S : k <= x

\* C1: after bulk_load(keys) on a tree of order >= 2, a search for a key of
\* the array returns found with a position in [0, n) that holds that key.
C1_BPTreeRoundTrip ==
  (index = "bpt" /\ built /\ order_ >= 2 /\ last.op = "bpt_search"
     /\ HasKey(keys, last.key))
  => (last.found /\ InRange(last.pos, keys) /\ At(keys, last.pos) = last.key)

\* a key found in an order-2 tree over 5 keys whose run of equal keys
\* spans the second and third leaf, which have different parents
C1_Witness ==
  /\ index = "bpt" /\ built /\ order_ = 2 /\ Len(keys) = 5
  /\ At(keys, 2) = At(keys, 4) /\ At(keys, 0) < At(keys, 2)
  /\ last.op = "bpt_search" /\ last.key = At(keys, 3) /\ last.found

\* C2: after train(keys) on an RMI with num_leaves >= 1, a search for a key
\* of the array returns found with a position in [0, n) that holds that key.
C2_RMIRoundTrip ==
  (index = "rmi" /\ built /\ last.op = "rmi_search" /\ HasKey(keys, last.key))
  => (~last.ub /\ last.found /\ InRange(last.pos, keys)
      /\ At(keys, last.pos) = last.key)

\* a key found in an array of equal keys, where every fit is the flat model
C2_Witness ==
  /\ index = "rmi" /\ built /\ Len(keys) >= 2
  /\ At(keys, 0) = At(keys, Len(keys) - 1)
  /\ rmi_root.a = Zero
  /\ last.op = "rmi_search" /\ last.found /\ last.key = At(keys, 0)

\* C3: after a build, a search on either index reports found only with a
\* position that holds the query key, and reports not found for every key
\* that is not in the array.
C3_NegativeCorrect ==
  (built /\ last.op \in {"bpt_search", "rmi_search"})
  => /\ ~last.ub
     /\ last.found => (InRange(last.pos, keys) /\ At(keys, last.pos) = last.key)
     /\ ~HasKey(keys, last.key) => ~last.found

\* an absent key the root routes to a leaf that received no training key
C3_Witness ==
  /\ index = "rmi" /\ built /\ last.op = "rmi_search"
  /\ ~HasKey(keys, last.key) /\ ~last.found
  /\ At(keys, 0) < last.key /\ last.key < At(keys, Len(keys) - 1)
  /\ At(leaves_, Route(rmi, num_leaves_, keys, last.key, fp_low)).end_idx = 0

\* the final window search computes for the key at index i
WindowOf(i) ==
  Window(At(leaves_, Route(rmi, num_leaves_, keys, At(keys, i), fp_low)),
         keys, At(keys, i), fp_low)

\* C4: after train(keys), every index i lies in the final window that
\* search computes for keys[i].
C4_WindowSound ==
  (index = "rmi" /\ built)
  => \A i \in 0..(Len(keys) - 1) : WindowOf(i).lo <= i /\ i <= WindowOf(i).hi

\* a key whose leaf has max_error > 0 and whose window is strictly inside
\* the leaf's own range
C4_Witness ==
  /\ index = "rmi" /\ built
  /\ \E i \in 0..(Len(keys) - 1) :
       LET leaf == At(leaves_, Route(rmi, num_leaves_, keys, At(keys, i), fp_low))
       IN  /\ leaf.max_error > 0
           /\ (WindowOf(i).lo > leaf.start_idx \/ WindowOf(i).hi < leaf.end_idx - 1)

\* the tree bulk_load left behind for a non-empty array
HasTree == index = "bpt" /\ built /\ pc = "idle" /\ ~IsNull(bpt_root)

MinKeysRight ==
  \A nd \in Nodes(bpt_root) : IsMinOf(nd.min_key, SubtreeKeys(nd))

\* C5 as stated: in the tree bulk_load builds with order >= 2, every
\* internal node has between 2 and order children and every node's
\* min_key is the minimum key of its subtree.
C5_PackingAsStated ==
  (HasTree /\ order_ >= 2)
  => /\ \A nd \in Nodes(bpt_root) :
          ~nd.is_leaf => (2 <= Len(nd.child_ptrs) /\ Len(nd.child_ptrs) <= order_)
     /\ MinKeysRight

\* C5 amended: every internal node has between 1 and order children, an
\* internal root has at least 2, and every node's min_key is the minimum
\* key of its subtree.
C5_Packing ==
  (HasTree /\ order_ >= 2)
  => /\ \A nd \in Nodes(bpt_root) :
          ~nd.is_leaf => (1 <= Len(nd.child_ptrs) /\ Len(nd.child_ptrs) <= order_)
     /\ ~bpt_root.is_leaf => Len(bpt_root.child_ptrs) >= 2
     /\ MinKeysRight

\* a tree of order >= 2 with an internal node that has a single child
C5_Witness ==
  /\ HasTree /\ order_ >= 2 /\ last.op = "bulk_load"
  /\ \E nd \in Nodes(bpt_root) : ~nd.is_leaf /\ Len(nd.child_ptrs) = 1

\* C6: bulk_load returns for every order >= 1, and for a non-empty array it
\* leaves exactly one node as the root.
C6_BulkLoadTerminates ==
  (index = "bpt" /\ last.op = "bulk_load")
  => /\ pc = "idle"
     /\ Len(keys) > 0 => ~IsNull(bpt_root)

\* C7: a search on an RMI that was never trained, with a non-empty array,
\* reads no leaf model that does not exist and reports not found.
C7_UntrainedSearchSafe ==
  (index = "rmi" /\ ~built /\ last.op = "rmi_search" /\ Len(last.arg) > 0)
  => (~last.ub /\ ~last.found)

\* what search returns for key on an RMI holding root and leaves
AnswerOn(root, leaves, ks, key) ==
  RMISearch([root |-> root, leaves |-> leaves], num_leaves_, ks, key, fp_low)

\* C8: train on an empty array throws and leaves root_ and leaves_ as they
\* were, so that every search answers as before the call.
C8_FailedTrainKeepsState ==
  [][(last'.op = "train" /\ last'.arg = <<>>)
       => /\ last'.threw
          /\ rmi_root' = rmi_root /\ leaves_' = leaves_
          /\ \A key \in TrainKeyDom :
               AnswerOn(rmi_root', leaves_', keys', key)
                 = AnswerOn(rmi_root, leaves_, keys, key)]_vars

\* train on an empty array has thrown on an RMI trained before
C8_Witness ==
  /\ index = "rmi" /\ built /\ last.op = "train" /\ last.threw
  /\ last.replaced /\ Len(leaves_) = num_leaves_ /\ Len(keys) > 0

\* C9: after any sequence of builds the object is as a new object built
\* once on the last array, and answers every search as that one does.
C9_RebuildReplaces ==
  /\ (index = "bpt" /\ built /\ pc = "idle")
     => LET fresh == BulkLoad(nullptr, order_, keys)
        IN  /\ bpt_root = fresh.root
            /\ \A key \in KeyDom :
                 BPTreeSearch(bpt_root, key) = BPTreeSearch(fresh.root, key)
  /\ (index = "rmi" /\ built)
     => LET fresh == RMITrain([root |-> ZeroModel, leaves |-> <<>>],
                              num_leaves_, keys, fp_low)
        IN  /\ rmi_root = fresh.root /\ leaves_ = fresh.leaves
            /\ \A key \in TrainKeyDom :
                 AnswerOn(rmi_root, leaves_, keys, key)
                   = AnswerOn(fresh.root, fresh.leaves, keys, key)

\* a build has replaced the state of an earlier build
C9_Witness ==
  /\ built /\ pc = "idle" /\ last.replaced /\ ~last.threw
  /\ last.op \in {"bulk_load", "train"} /\ Len(keys) > 0

\* C10: a tree never built, or last loaded with an empty array, has no root
\* and search reports not found for every key.
C10_EmptyTree ==
  (index = "bpt" /\ pc = "idle" /\ (~built \/ keys = <<>>))
  => /\ IsNull(bpt_root)
     /\ \A key \in KeyDom :
          BPTreeSearch(bpt_root, key) = [found |-> FALSE, pos |-> NoPos]
     /\ last.op = "bpt_search" => ~last.found

\* an empty array loaded over an earlier tree, then searched
C10_Witness ==
  /\ index = "bpt" /\ built /\ keys = <<>> /\ IsNull(bpt_root)
  /\ last.op = "bpt_search" /\ ~last.found

\* C11: in every reachable state of an RMI constructed with num_leaves
\* (before any train, after a failed train, after successful trains) a
\* memory_usage_bytes call returns (1 + num_leaves) * sizeof(LinearModel).
C11_MemoryUsage ==
  (index = "rmi" /\ last.op = "rmi_memory_usage_bytes")
    => last.bytes = (1 + num_leaves_) * SizeofLinearModel

\* what the call of reader r returns when it runs alone on the object
Alone(r) ==
  IF r.op = "memory_usage_bytes"
  THEN [found |-> FALSE, pos |-> NoPos,
        bytes |-> IF index = "bpt" THEN BPTreeMemoryUsage(bpt_root)
                  ELSE RMIMemoryUsage(leaves_)]
  ELSE IF index = "bpt"
  THEN [found |-> BPTreeSearch(bpt_root, r.key).found,
        pos   |-> BPTreeSearch(bpt_root, r.key).pos, bytes |-> 0]
  ELSE [found |-> RMISearch(rmi, num_leaves_, keys, r.key, fp_low).found,
        pos   |-> RMISearch(rmi, num_leaves_, keys, r.key, fp_low).pos,
        bytes |-> 0]

\* C12: after a completed build and with no build in flight, no step of a
\* search or memory_usage_bytes call of any thread, in any interleaving,
\* changes the built structure or the key array, and every call that
\* returns returns what it would return if it ran alone.
C12_ReadersSafe ==
  [][ /\ <<keys, order_, bpt_root, num_leaves_, rmi_root, leaves_>>' =
         <<keys, order_, bpt_root, num_leaves_, rmi_root, leaves_>>
      /\ \A t \in Threads :
           (readers[t].pc # "idle" /\ readers'[t].pc = "idle") =>
             \E a \in {Alone(readers[t])} :
                /\ readers'[t].found = a.found
                /\ readers'[t].pos = a.pos
                /\ readers'[t].bytes = a.bytes ]_vars

\* two threads are in the middle of overlapping searches for different
\* keys, one in the second level of a tree or at its window, the other
\* one step behind
C12_Witness ==
  /\ readers["t1"].op = "search" /\ readers["t2"].op = "search"
  /\ readers["t1"].key # readers["t2"].key
  /\ \/ /\ readers["t1"].pc = "in_node" /\ Len(readers["t1"].path) = 1
        /\ readers["t2"].pc = "in_node" /\ readers["t2"].path = <<>>
     \/ /\ readers["t1"].pc = "window" /\ readers["t2"].pc = "routed"
        /\ readers["t1"].leaf_id # readers["t2"].leaf_id

\* the buckets the latest train filled, one sequence of indices per leaf
TrainBuckets == TrainMemo[fp_low, num_leaves_, ArrayCode(keys)].buckets

\* the leaf_id search derives for the key at index i
RouteOf(i) == Route(rmi, num_leaves_, keys, At(keys, i), fp_low)

\* C13: after train(keys), for every index i the leaf_id search derives for
\* keys[i] is the bucket train put i into, so the leaf a present key is
\* routed to received at least one training key and its range holds i.
C13_RoutingConsistent ==
  (index = "rmi" /\ built)
  => \A i \in 0..(Len(keys) - 1) :
       /\ \E k \in 0..(Len(At(TrainBuckets, RouteOf(i))) - 1) :
             At(At(TrainBuckets, RouteOf(i)), k) = i
       /\ At(leaves_, RouteOf(i)).end_idx > 0
       /\ At(leaves_, RouteOf(i)).start_idx <= i
       /\ i < At(leaves_, RouteOf(i)).end_idx

\* a trained index whose keys go to two different leaves while another
\* leaf received no key
C13_Witness ==
  /\ index = "rmi" /\ built /\ last.op = "train"
  /\ \E i, j \in 0..(Len(keys) - 1) : RouteOf(i) # RouteOf(j)
  /\ \E l \in 0..(num_leaves_ - 1) : At(TrainBuckets, l) = <<>>

\* the leaf buckets that hold index i
BucketsOf(i) ==
  { l \in 0..(num_leaves_ - 1) :
      \E k \in 0..(Len(At(TrainBuckets, l)) - 1) :
         At(At(TrainBuckets, l), k) = i }

\* the leaves that received at least one training key
NonEmptyLeaves == { l \in 0..(num_leaves_ - 1) : At(TrainBuckets, l) # <<>> }

\* C14: after train on a non-decreasing array of length n, every index in
\* [0, n) is in exactly one bucket, the bucket id is non-decreasing in the
\* index, the ranges [start_idx, end_idx) of the non-empty leaves are
\* disjoint and in increasing order of leaf id, end_idx - start_idx is the
\* number of keys of the bucket, the ranges cover [0, n), and every leaf
\* has start_idx <= end_idx.
C14_OrderedPartition ==
  (index = "rmi" /\ built)
  => /\ \A i \in 0..(Len(keys) - 1) : Cardinality(BucketsOf(i)) = 1
     /\ \A i, j \in 0..(Len(keys) - 1) :
          i <= j => \A l \in BucketsOf(i), m \in BucketsOf(j) : l <= m
     /\ \A l, m \in NonEmptyLeaves :
          l < m => At(leaves_, l).end_idx <= At(leaves_, m).start_idx
     /\ \A l \in NonEmptyLeaves :
          At(leaves_, l).end_idx - At(leaves_, l).start_idx
            = Len(At(TrainBuckets, l))
     /\ \A i \in 0..(Len(keys) - 1) :
          \E l \in NonEmptyLeaves :
             At(leaves_, l).start_idx <= i /\ i < At(leaves_, l).end_idx
     /\ \A l \in 0..(num_leaves_ - 1) :
          At(leaves_, l).start_idx <= At(leaves_, l).end_idx

====
